---- MODULE Spec2Model ----
(***************************************************************************)
(* Model of pipelines/hmda/pipeline.py: the builder get_pipeline (a step   *)
(* graph with parameters and a condition), the execution of the graph it   *)
(* declares, the submission-time parameter overrides, the batch-transform  *)
(* column filters and the tag lookup get_pipeline_custom_tags.             *)
(***************************************************************************)
EXTENDS Integers, Sequences, FiniteSets, TLC

VARIABLES
    \* get_pipeline: position, arguments, resolved session values, result
    bpc, args, role, default_bucket, pipeline,
    \* one execution of the returned pipeline
    status, report, outcome, execStatus,
    \* submission-time parameter values of one execution request
    values, nOverrides,
    \* get_pipeline_custom_tags
    tpc, supplied, project_name, new_tags, project_tags, returned, error,
    \* the batch-transform job of step HMDATransform
    xpc, rows, sent, preds, lines,
    \* two executions of the returned pipeline running side by side
    finished, written, consumed

buildVars == <<bpc, args, role, default_bucket, pipeline>>
execVars  == <<status, report, outcome, execStatus>>
paramVars == <<values, nOverrides>>
tagVars   == <<tpc, supplied, project_name, new_tags, project_tags, returned, error>>
xformVars == <<xpc, rows, sent, preds, lines>>
concVars  == <<finished, written, consumed>>
vars == <<buildVars, execVars, paramVars, tagVars, xformVars, concVars>>

None == "None"

Range(s) == {s[i] : i \in DOMAIN s}

(***************************************************************************)
(* Parameters (lines 199-235).  A parameter object is a record of its      *)
(* class, its name and its default value (written as text).                *)
(***************************************************************************)
ParameterInteger(name, default) ==
    [kind |-> "ParameterInteger", name |-> name, default_value |-> default]
ParameterString(name, default) ==
    [kind |-> "ParameterString", name |-> name, default_value |-> default]
ParameterBoolean(name, default) ==
    [kind |-> "ParameterBoolean", name |-> name, default_value |-> default]
\* a plain Python str, which has neither a name nor a default: the text is
\* kept in default_value and the name is empty
PlainStr(text) ==
    [kind |-> "str", name |-> "", default_value |-> text]

ParameterKinds == {"ParameterInteger", "ParameterString", "ParameterBoolean"}

processing_instance_count == ParameterInteger("ProcessingInstanceCount", "1")
model_approval_status == ParameterString("ModelApprovalStatus", "PendingManualApproval")
input_data(bucket) ==
    [kind |-> "ParameterString", name |-> "InputDataUrl",
     default_value |-> "s3://" \o bucket \o "/dataset/state_DC.csv"]

skip_check_data_quality == ParameterBoolean("SkipDataQualityCheck", "False")
register_new_baseline_data_quality == ParameterBoolean("RegisterNewDataQualityBaseline", "False")
supplied_baseline_statistics_data_quality == ParameterString("DataQualitySuppliedStatistics", "")
supplied_baseline_constraints_data_quality == ParameterString("DataQualitySuppliedConstraints", "")

skip_check_data_bias == ParameterBoolean("SkipDataBiasCheck", "False")
register_new_baseline_data_bias == ParameterBoolean("RegisterNewDataBiasBaseline", "False")
supplied_baseline_constraints_data_bias == ParameterString("DataBiasSuppliedBaselineConstraints", "")

skip_check_model_quality == ParameterBoolean("SkipModelQualityCheck", "False")
register_new_baseline_model_quality == ParameterBoolean("RegisterNewModelQualityBaseline", "False")
supplied_baseline_statistics_model_quality == ParameterString("ModelQualitySuppliedStatistics", "")
supplied_baseline_constraints_model_quality == ParameterString("ModelQualitySuppliedConstraints", "")

skip_check_model_bias == ParameterBoolean("SkipModelBiasCheck", "False")
register_new_baseline_model_bias == ParameterBoolean("RegisterNewModelBiasBaseline", "False")
supplied_baseline_constraints_model_bias == ParameterString("ModelBiasSuppliedBaselineConstraints", "")

skip_check_model_explainability == ParameterBoolean("SkipModelExplainabilityCheck", "False")
register_new_baseline_model_explainability ==
    ParameterBoolean("RegisterNewModelExplainabilityBaseline", "False")
supplied_baseline_constraints_model_explainability ==
    ParameterString("ModelExplainabilitySuppliedBaselineConstraints", "")

(***************************************************************************)
(* Steps.  A step is a record of its name, its SDK class, its explicit     *)
(* depends_on, the symbolic references it consumes (step, output), the     *)
(* names of the pipeline parameters it reads, the outputs and properties   *)
(* it declares, the role it runs under, and (a ConditionStep) the steps of *)
(* its two branches.                                                       *)
(***************************************************************************)
\* S3 locations are kept as the segments between their "/" separators, so
\* "s3://b/p" is <<"s3:", "", "b", "p">>.  The execution id is a segment
\* that is replaced when an execution runs.
PIPELINE_EXECUTION_ID == "ExecutionVariables.PIPELINE_EXECUTION_ID"

\* Join(on="/", values=[...]) over values given as segments
RECURSIVE Join(_)
Join(values_) ==
    IF values_ = <<>> THEN <<>> ELSE Head(values_) \o Join(Tail(values_))

\* Join(on="/", values=["s3:/", default_bucket, base_job_prefix,
\* ExecutionVariables.PIPELINE_EXECUTION_ID, leaf]) with get_pipeline's locals
CheckOutputUri(leaf) ==
    Join(<< <<"s3:", "">>, <<default_bucket>>, <<args.base_job_prefix>>,
            <<PIPELINE_EXECUTION_ID>>, <<leaf>> >>)

\* f"s3://{default_bucket}/{base_job_prefix}/{leaf}/analysis_cfg"
AnalysisCfgUri(leaf) ==
    <<"s3:", "", default_bucket, args.base_job_prefix, leaf, "analysis_cfg">>

Ref(step, output) == [step |-> step, output |-> output]

NoRole == "NoRole"

\* the properties a step of each SDK class exposes to later steps
QualityCheckProperties ==
    {"CalculatedBaselineStatistics", "CalculatedBaselineConstraints",
     "BaselineUsedForDriftCheckStatistics", "BaselineUsedForDriftCheckConstraints"}
ClarifyCheckProperties ==
    {"CalculatedBaselineConstraints", "BaselineUsedForDriftCheckConstraints"}

step_process(r) ==
    [name |-> "PreprocessHMDAData", type |-> "ProcessingStep",
     depends_on |-> {}, refs |-> {},
     params |-> {processing_instance_count.name, "InputDataUrl"},
     outputs |-> {"train", "train_no_header", "test"},
     role |-> r, if_steps |-> <<>>, else_steps |-> <<>>]

\* mutant: the data-quality check made to wait for the model search
data_quality_check_step_after_automl(r) ==
    [name |-> "DataQualityCheckStep", type |-> "QualityCheckStep",
     depends_on |-> {"AutoMLStep"},
     refs |-> {Ref("PreprocessHMDAData", "train_no_header")},
     params |-> {skip_check_data_quality.name,
                 register_new_baseline_data_quality.name,
                 supplied_baseline_statistics_data_quality.name,
                 supplied_baseline_constraints_data_quality.name},
     outputs |-> QualityCheckProperties,
     skip_check |-> skip_check_data_quality.name,
     register_new_baseline |-> register_new_baseline_data_quality.name,
     s3_output |-> CheckOutputUri("dataqualitycheckstep"),
     role |-> r, if_steps |-> <<>>, else_steps |-> <<>>]

data_quality_check_step(r) ==
    [name |-> "DataQualityCheckStep", type |-> "QualityCheckStep",
     depends_on |-> {},
     refs |-> {Ref("PreprocessHMDAData", "train_no_header")},
     params |-> {skip_check_data_quality.name,
                 register_new_baseline_data_quality.name,
                 supplied_baseline_statistics_data_quality.name,
                 supplied_baseline_constraints_data_quality.name},
     outputs |-> QualityCheckProperties,
     skip_check |-> skip_check_data_quality.name,
     register_new_baseline |-> register_new_baseline_data_quality.name,
     s3_output |-> CheckOutputUri("dataqualitycheckstep"),
     role |-> r, if_steps |-> <<>>, else_steps |-> <<>>]

\* mutant: the data-bias check reading the data-quality check's skip flag
data_bias_check_step_skip_of_data_quality(r) ==
    [name |-> "DataBiasCheckStep", type |-> "ClarifyCheckStep",
     depends_on |-> {},
     refs |-> {Ref("PreprocessHMDAData", "train_no_header")},
     params |-> {skip_check_data_quality.name, register_new_baseline_data_bias.name},
     outputs |-> ClarifyCheckProperties,
     skip_check |-> skip_check_data_quality.name,
     register_new_baseline |-> register_new_baseline_data_bias.name,
     s3_output |-> CheckOutputUri("databiascheckstep"),
     s3_analysis_config |-> AnalysisCfgUri("databiascheckstep"),
     role |-> r, if_steps |-> <<>>, else_steps |-> <<>>]

data_bias_check_step(r) ==
    [name |-> "DataBiasCheckStep", type |-> "ClarifyCheckStep",
     depends_on |-> {},
     refs |-> {Ref("PreprocessHMDAData", "train_no_header")},
     params |-> {skip_check_data_bias.name, register_new_baseline_data_bias.name},
     outputs |-> ClarifyCheckProperties,
     skip_check |-> skip_check_data_bias.name,
     register_new_baseline |-> register_new_baseline_data_bias.name,
     s3_output |-> CheckOutputUri("databiascheckstep"),
     s3_analysis_config |-> AnalysisCfgUri("databiascheckstep"),
     role |-> r, if_steps |-> <<>>, else_steps |-> <<>>]

\* mutant: the model search also made to wait for the evaluation step
step_automl_after_evaluation(r) ==
    [name |-> "AutoMLStep", type |-> "AutoMLStep",
     depends_on |-> {"DataQualityCheckStep", "DataBiasCheckStep", "EvaluateHMDAModel"},
     refs |-> {Ref("PreprocessHMDAData", "train")},
     params |-> {},
     outputs |-> {"BestCandidate"},
     s3_output |-> <<"s3:", "", default_bucket, args.base_job_prefix, "automlstep">>,
     role |-> r, if_steps |-> <<>>, else_steps |-> <<>>]

step_automl_no_depends_on(r) ==
    [name |-> "AutoMLStep", type |-> "AutoMLStep",
     depends_on |-> {},
     refs |-> {Ref("PreprocessHMDAData", "train")},
     params |-> {},
     outputs |-> {"BestCandidate"},
     s3_output |-> <<"s3:", "", default_bucket, args.base_job_prefix, "automlstep">>,
     role |-> r, if_steps |-> <<>>, else_steps |-> <<>>]

step_automl(r) ==
    [name |-> "AutoMLStep", type |-> "AutoMLStep",
     depends_on |-> {"DataQualityCheckStep", "DataBiasCheckStep"},
     refs |-> {Ref("PreprocessHMDAData", "train")},
     params |-> {},
     outputs |-> {"BestCandidate"},
     s3_output |-> <<"s3:", "", default_bucket, args.base_job_prefix, "automlstep">>,
     role |-> r, if_steps |-> <<>>, else_steps |-> <<>>]

step_create_model(r) ==
    [name |-> "HMDACreateModel", type |-> "ModelStep",
     depends_on |-> {},
     refs |-> {Ref("AutoMLStep", "BestCandidate")},
     params |-> {},
     outputs |-> {"ModelName"},
     role |-> r, if_steps |-> <<>>, else_steps |-> <<>>]

step_transform ==
    [name |-> "HMDATransform", type |-> "TransformStep",
     depends_on |-> {},
     refs |-> {Ref("HMDACreateModel", "ModelName"), Ref("PreprocessHMDAData", "test")},
     params |-> {},
     outputs |-> {"TransformOutput"},
     s3_output |-> <<"s3:", "", default_bucket, "HMDATransform">>,
     role |-> NoRole, if_steps |-> <<>>, else_steps |-> <<>>]

model_quality_check_step(r) ==
    [name |-> "ModelQualityCheckStep", type |-> "QualityCheckStep",
     depends_on |-> {},
     refs |-> {Ref("HMDATransform", "TransformOutput")},
     params |-> {skip_check_model_quality.name,
                 register_new_baseline_model_quality.name,
                 supplied_baseline_statistics_model_quality.name,
                 supplied_baseline_constraints_model_quality.name},
     outputs |-> QualityCheckProperties,
     skip_check |-> skip_check_model_quality.name,
     register_new_baseline |-> register_new_baseline_model_quality.name,
     s3_output |-> CheckOutputUri("modelqualitycheckstep"),
     role |-> r, if_steps |-> <<>>, else_steps |-> <<>>]

model_bias_check_step(r) ==
    [name |-> "ModelBiasCheckStep", type |-> "ClarifyCheckStep",
     depends_on |-> {},
     refs |-> {Ref("PreprocessHMDAData", "train_no_header"),
               Ref("HMDACreateModel", "ModelName")},
     params |-> {skip_check_model_bias.name,
                 register_new_baseline_model_bias.name,
                 supplied_baseline_constraints_model_bias.name},
     outputs |-> ClarifyCheckProperties,
     skip_check |-> skip_check_model_bias.name,
     register_new_baseline |-> register_new_baseline_model_bias.name,
     s3_output |-> CheckOutputUri("modelbiascheckstep"),
     s3_analysis_config |-> AnalysisCfgUri("modelbiascheckstep"),
     role |-> r, if_steps |-> <<>>, else_steps |-> <<>>]

model_explainability_check_step(r) ==
    [name |-> "ModelExplainabilityCheckStep", type |-> "ClarifyCheckStep",
     depends_on |-> {},
     refs |-> {Ref("PreprocessHMDAData", "train_no_header"),
               Ref("HMDACreateModel", "ModelName")},
     params |-> {skip_check_model_explainability.name,
                 register_new_baseline_model_explainability.name,
                 supplied_baseline_constraints_model_explainability.name},
     outputs |-> ClarifyCheckProperties,
     skip_check |-> skip_check_model_explainability.name,
     register_new_baseline |-> register_new_baseline_model_explainability.name,
     s3_output |-> CheckOutputUri("modelexplainabilitycheckstep"),
     s3_analysis_config |-> AnalysisCfgUri("modelexplainabilitycheckstep"),
     role |-> r, if_steps |-> <<>>, else_steps |-> <<>>]

\* the property file of the evaluation step (lines 671-675)
evaluation_report ==
    [name |-> "HMDAEvaluationReport", output_name |-> "evaluation", path |-> "evaluation.json"]

step_eval(r) ==
    [name |-> "EvaluateHMDAModel", type |-> "ProcessingStep",
     depends_on |-> {},
     refs |-> {Ref("HMDATransform", "TransformOutput")},
     params |-> {processing_instance_count.name},
     outputs |-> {"evaluation", evaluation_report.name},
     role |-> r, if_steps |-> <<>>, else_steps |-> <<>>]

(***************************************************************************)
(* The two metrics bundles (lines 683-757).  Each field is a source of     *)
(* class MetricsSource or FileSource; a MetricsSource names a property of  *)
(* a step, a FileSource a file written when the check config is built      *)
(* (no producing step).                                                    *)
(***************************************************************************)
MetricsSource(step, output) == [cls |-> "MetricsSource", step |-> step, output |-> output]
FileSource(uri) == [cls |-> "FileSource", step |-> None, output |-> uri]

\* mutant: the pre-training bias field given the baseline used for the drift check
model_metrics_with_drift_baseline ==
    [model_data_statistics |-> MetricsSource("DataQualityCheckStep", "CalculatedBaselineStatistics"),
     model_data_constraints |-> MetricsSource("DataQualityCheckStep", "CalculatedBaselineConstraints"),
     bias_pre_training |-> MetricsSource("DataBiasCheckStep", "BaselineUsedForDriftCheckConstraints"),
     model_statistics |-> MetricsSource("ModelQualityCheckStep", "CalculatedBaselineStatistics"),
     model_constraints |-> MetricsSource("ModelQualityCheckStep", "CalculatedBaselineConstraints"),
     bias_post_training |-> MetricsSource("ModelBiasCheckStep", "CalculatedBaselineConstraints"),
     bias |-> MetricsSource("ModelBiasCheckStep", "CalculatedBaselineConstraints"),
     explainability |-> MetricsSource("ModelExplainabilityCheckStep", "CalculatedBaselineConstraints")]

model_metrics ==
    [model_data_statistics |-> MetricsSource("DataQualityCheckStep", "CalculatedBaselineStatistics"),
     model_data_constraints |-> MetricsSource("DataQualityCheckStep", "CalculatedBaselineConstraints"),
     bias_pre_training |-> MetricsSource("DataBiasCheckStep", "CalculatedBaselineConstraints"),
     model_statistics |-> MetricsSource("ModelQualityCheckStep", "CalculatedBaselineStatistics"),
     model_constraints |-> MetricsSource("ModelQualityCheckStep", "CalculatedBaselineConstraints"),
     bias_post_training |-> MetricsSource("ModelBiasCheckStep", "CalculatedBaselineConstraints"),
     bias |-> MetricsSource("ModelBiasCheckStep", "CalculatedBaselineConstraints"),
     explainability |-> MetricsSource("ModelExplainabilityCheckStep", "CalculatedBaselineConstraints")]

drift_check_baselines ==
    [model_data_statistics |->
        MetricsSource("DataQualityCheckStep", "BaselineUsedForDriftCheckStatistics"),
     model_data_constraints |->
        MetricsSource("DataQualityCheckStep", "BaselineUsedForDriftCheckConstraints"),
     bias_pre_training_constraints |->
        MetricsSource("DataBiasCheckStep", "BaselineUsedForDriftCheckConstraints"),
     bias_config_file |-> FileSource("model_bias_check_config.monitoring_analysis_config_uri"),
     model_statistics |->
        MetricsSource("ModelQualityCheckStep", "BaselineUsedForDriftCheckStatistics"),
     model_constraints |->
        MetricsSource("ModelQualityCheckStep", "BaselineUsedForDriftCheckConstraints"),
     bias_post_training_constraints |->
        MetricsSource("ModelBiasCheckStep", "BaselineUsedForDriftCheckConstraints"),
     explainability_constraints |->
        MetricsSource("ModelExplainabilityCheckStep", "BaselineUsedForDriftCheckConstraints"),
     explainability_config_file |->
        FileSource("model_explainability_check_config.monitoring_analysis_config_uri")]

\* the step properties a bundle refers to
BundleRefs(bundle) ==
    {Ref(bundle[f].step, bundle[f].output) :
        f \in {g \in DOMAIN bundle : bundle[g].cls = "MetricsSource"}}

\* mutant: the registration step given the name of the model-creation step
step_register_same_name(r) ==
    [name |-> "HMDACreateModel", type |-> "ModelStep",
     depends_on |-> {},
     refs |-> {Ref("AutoMLStep", "BestCandidate")}
                \cup BundleRefs(model_metrics) \cup BundleRefs(drift_check_baselines),
     params |-> {model_approval_status.name},
     outputs |-> {"ModelPackageArn"},
     model_metrics |-> model_metrics,
     drift_check_baselines |-> drift_check_baselines,
     role |-> r, if_steps |-> <<>>, else_steps |-> <<>>]

\* mutant: the registration step without the references of the two bundles
step_register_without_bundle_refs(r) ==
    [name |-> "RegisterHMDAModel", type |-> "ModelStep",
     depends_on |-> {},
     refs |-> {Ref("AutoMLStep", "BestCandidate")},
     params |-> {model_approval_status.name},
     outputs |-> {"ModelPackageArn"},
     model_metrics |-> model_metrics,
     drift_check_baselines |-> drift_check_baselines,
     role |-> r, if_steps |-> <<>>, else_steps |-> <<>>]

step_register(r) ==
    [name |-> "RegisterHMDAModel", type |-> "ModelStep",
     depends_on |-> {},
     refs |-> {Ref("AutoMLStep", "BestCandidate")}
                \cup BundleRefs(model_metrics) \cup BundleRefs(drift_check_baselines),
     params |-> {model_approval_status.name},
     outputs |-> {"ModelPackageArn"},
     model_metrics |-> model_metrics,
     drift_check_baselines |-> drift_check_baselines,
     role |-> r, if_steps |-> <<>>, else_steps |-> <<>>]

(***************************************************************************)
(* The condition (lines 797-811).  Metric values are in hundredths, so     *)
(* the right operand 0.5 is 50.                                            *)
(***************************************************************************)
Threshold == 50

JsonGet(step_name, property_file, json_path) ==
    [step_name |-> step_name, property_file |-> property_file, json_path |-> json_path]

cond_gt ==
    [op |-> "GreaterThan",
     left |-> JsonGet("EvaluateHMDAModel", evaluation_report.name,
                      "classification_metrics.weighted_f1.value"),
     right |-> Threshold]

cond_lte ==
    [op |-> "GreaterThanOrEqualTo",
     left |-> JsonGet("EvaluateHMDAModel", evaluation_report.name,
                      "classification_metrics.weighted_f1.value"),
     right |-> Threshold]

step_cond(r) ==
    [name |-> "CheckF1HMDAEvaluation", type |-> "ConditionStep",
     depends_on |-> {},
     refs |-> {Ref(cond_lte.left.step_name, cond_lte.left.property_file)},
     params |-> {},
     outputs |-> {"Outcome"},
     role |-> NoRole, if_steps |-> <<step_register(r)>>, else_steps |-> <<>>]

(***************************************************************************)
(* The pipeline object (lines 813-848).                                    *)
(***************************************************************************)
\* mutant: the parameters of the model-bias check left out of the list
PipelineParameters_without_model_bias(a, bucket) ==
    << PlainStr(a.processing_instance_type),
       processing_instance_count,
       PlainStr(a.training_instance_type),
       model_approval_status,
       input_data(bucket),
       skip_check_data_quality,
       register_new_baseline_data_quality,
       supplied_baseline_statistics_data_quality,
       supplied_baseline_constraints_data_quality,
       skip_check_data_bias,
       register_new_baseline_data_bias,
       supplied_baseline_constraints_data_bias,
       skip_check_model_quality,
       register_new_baseline_model_quality,
       supplied_baseline_statistics_model_quality,
       supplied_baseline_constraints_model_quality,
       skip_check_model_explainability,
       register_new_baseline_model_explainability,
       supplied_baseline_constraints_model_explainability >>

PipelineParameters(a, bucket) ==
    << PlainStr(a.processing_instance_type),
       processing_instance_count,
       PlainStr(a.training_instance_type),
       model_approval_status,
       input_data(bucket),
       skip_check_data_quality,
       register_new_baseline_data_quality,
       supplied_baseline_statistics_data_quality,
       supplied_baseline_constraints_data_quality,
       skip_check_data_bias,
       register_new_baseline_data_bias,
       supplied_baseline_constraints_data_bias,
       skip_check_model_quality,
       register_new_baseline_model_quality,
       supplied_baseline_statistics_model_quality,
       supplied_baseline_constraints_model_quality,
       skip_check_model_bias,
       register_new_baseline_model_bias,
       supplied_baseline_constraints_model_bias,
       skip_check_model_explainability,
       register_new_baseline_model_explainability,
       supplied_baseline_constraints_model_explainability >>

\* mutant: the model-quality check listed before the transform step it reads
PipelineSteps_quality_before_transform(r) ==
    << step_process(r), data_quality_check_step(r), data_bias_check_step(r),
       step_automl(r), step_create_model(r), model_quality_check_step(r),
       step_transform, model_bias_check_step(r),
       model_explainability_check_step(r), step_eval(r), step_cond(r) >>

PipelineSteps(r) ==
    << step_process(r), data_quality_check_step(r), data_bias_check_step(r),
       step_automl(r), step_create_model(r), step_transform,
       model_quality_check_step(r), model_bias_check_step(r),
       model_explainability_check_step(r), step_eval(r), step_cond(r) >>

\* every step object get_pipeline constructs (lines 257-811)
BuiltSteps(r) ==
    {step_process(r), data_quality_check_step(r), data_bias_check_step(r),
     step_automl(r), step_create_model(r), step_transform,
     model_quality_check_step(r), model_bias_check_step(r),
     model_explainability_check_step(r), step_eval(r), step_register(r), step_cond(r)}

Pipeline(a, r, bucket) ==
    [name |-> a.pipeline_name,
     parameters |-> PipelineParameters(a, bucket),
     steps |-> PipelineSteps(r),
     sagemaker_session |-> [default_bucket |-> bucket]]

NoPipeline ==
    [name |-> None, parameters |-> <<>>, steps |-> <<>>,
     sagemaker_session |-> [default_bucket |-> None]]

(***************************************************************************)
(* get_pipeline as a state machine: the session and bucket (lines          *)
(* 192-193), the role (lines 194-195), then the construction of the        *)
(* parameters, the steps and the pipeline object (lines 197-848).          *)
(***************************************************************************)
Regions == {"eu-west-1"}
Roles == {None, "arn:aws:iam::1:role/pipeline"}
Buckets == {None, "my-bucket"}
ModelGroupNames == {"HMDAPackageGroup", "OtherGroup"}
PipelineNames == {"HMDAPipeline", "CheckF1HMDAEvaluation"}
JobPrefixes == {"HMDA", "PreprocessHMDAData"}
ProcessingInstanceTypes == {"ml.t3.large", "ProcessingInstanceCount"}
TrainingInstanceTypes == {"ml.m5.xlarge", "ml.c5.xlarge"}

Arguments ==
    [region : Regions, role : Roles, default_bucket : Buckets,
     model_package_group_name : ModelGroupNames, pipeline_name : PipelineNames,
     base_job_prefix : JobPrefixes,
     processing_instance_type : ProcessingInstanceTypes,
     training_instance_type : TrainingInstanceTypes]

DefaultArguments ==
    [region |-> "eu-west-1", role |-> None, default_bucket |-> None,
     model_package_group_name |-> "HMDAPackageGroup", pipeline_name |-> "HMDAPipeline",
     base_job_prefix |-> "HMDA", processing_instance_type |-> "ml.t3.large",
     training_instance_type |-> "ml.m5.xlarge"]

\* what the environment resolves a missing bucket and a missing role to
PlatformBucket(region) == "sagemaker-" \o region \o "-1"
ExecutionRole == "arn:aws:iam::1:role/execution"

IdleBuild ==
    /\ bpc = "idle" /\ args = DefaultArguments /\ role = ExecutionRole
    /\ default_bucket = PlatformBucket(DefaultArguments.region)
    /\ pipeline = Pipeline(args, role, default_bucket)
IdleExec ==
    /\ status = <<>> /\ report = <<>> /\ outcome = None /\ execStatus = "idle"
IdleParams ==
    /\ values = <<>> /\ nOverrides = 0
IdleTags ==
    /\ tpc = "idle" /\ supplied = <<>> /\ project_name = None /\ new_tags = <<>>
    /\ project_tags = <<>> /\ returned = None /\ error = None
IdleXform ==
    /\ xpc = "idle" /\ rows = <<>> /\ sent = <<>> /\ preds = <<>> /\ lines = <<>>
IdleConc ==
    /\ finished = <<>> /\ written = {} /\ consumed = {}

\* lines 192-193: the session is created and its bucket resolved; either can fail
GetSession ==
    /\ bpc = "start"
    /\ \/ /\ default_bucket' = IF args.default_bucket = None
                                  THEN PlatformBucket(args.region)
                                  ELSE args.default_bucket
          /\ bpc' = "session"
       \/ /\ bpc' = "raised"
          /\ UNCHANGED default_bucket
    /\ UNCHANGED <<args, role, pipeline, execVars, paramVars, tagVars, xformVars, concVars>>

\* mutant: the role is taken from the environment whatever was supplied
ResolveRole_always_environment ==
    /\ bpc = "session"
    /\ \/ role' = ExecutionRole /\ bpc' = "role"
       \/ bpc' = "raised" /\ UNCHANGED role
    /\ UNCHANGED <<args, default_bucket, pipeline, execVars, paramVars, tagVars, xformVars, concVars>>

\* lines 194-195: a missing role is resolved from the environment, which can fail
ResolveRole ==
    /\ bpc = "session"
    /\ IF args.role = None
          THEN \/ role' = ExecutionRole /\ bpc' = "role"
               \/ bpc' = "raised" /\ UNCHANGED role
          ELSE role' = args.role /\ bpc' = "role"
    /\ UNCHANGED <<args, default_bucket, pipeline, execVars, paramVars, tagVars, xformVars, concVars>>

\* lines 197-848: parameters, steps, condition and the Pipeline object
BuildPipeline ==
    /\ bpc = "role"
    /\ pipeline' = Pipeline(args, role, default_bucket)
    /\ bpc' = "returned"
    /\ UNCHANGED <<args, role, default_bucket, execVars, paramVars, tagVars, xformVars, concVars>>

InitBuild ==
    /\ bpc = "start" /\ args \in Arguments /\ role = None /\ default_bucket = None
    /\ pipeline = NoPipeline
    /\ IdleExec /\ IdleParams /\ IdleTags /\ IdleXform /\ IdleConc

NextBuild == GetSession \/ ResolveRole \/ BuildPipeline

SpecBuild == InitBuild /\ [][NextBuild]_vars

(***************************************************************************)
(* Structure of the returned pipeline.                                     *)
(***************************************************************************)
\* the steps of a step list with the steps nested in each condition's
\* branches following the condition, as a sequence (duplicates kept)
RECURSIVE Flatten(_)
Flatten(steps) ==
    IF steps = <<>> THEN <<>>
    ELSE <<Head(steps)>> \o Head(steps).if_steps \o Head(steps).else_steps
            \o Flatten(Tail(steps))

\* the names of the parameter objects of a parameter list
DeclaredParameters(parameters) ==
    {parameters[i].name : i \in {j \in DOMAIN parameters : parameters[j].kind \in ParameterKinds}}

\* reference ref, consumed at position i of the step list, names an output
\* declared by a step at an earlier position
ResolvedBefore(steps, i, ref) ==
    \E j \in 1..(i - 1) : steps[j].name = ref.step /\ ref.output \in steps[j].outputs

\* the steps at position i of the step list: the step and the steps nested in it
StepsAt(steps, i) ==
    {steps[i]} \cup Range(steps[i].if_steps) \cup Range(steps[i].else_steps)

\* C2: every symbolic output or property reference consumed by a step of the
\* returned pipeline (the registration step nested in the condition included)
\* names an output declared by a step at an earlier position of the step list.
C2_ReferentialIntegrity ==
    bpc = "returned" =>
        \A i \in DOMAIN pipeline.steps :
            \A s \in StepsAt(pipeline.steps, i) :
                \A ref \in s.refs : ResolvedBefore(pipeline.steps, i, ref)

C2_Witness ==
    /\ bpc = "returned"
    /\ \E i \in DOMAIN pipeline.steps :
         \E s \in Range(pipeline.steps[i].if_steps) :
            /\ Ref("ModelExplainabilityCheckStep", "BaselineUsedForDriftCheckConstraints") \in s.refs
            /\ Ref("AutoMLStep", "BestCandidate") \in s.refs
    /\ \E i \in DOMAIN pipeline.steps :
         Ref("PreprocessHMDAData", "test") \in pipeline.steps[i].refs

\* the step that implements each declared stage
StageStep ==
    [preprocess |-> "PreprocessHMDAData",
     data_quality_check |-> "DataQualityCheckStep",
     data_bias_check |-> "DataBiasCheckStep",
     automated_model_search |-> "AutoMLStep",
     model_creation |-> "HMDACreateModel",
     batch_transform |-> "HMDATransform",
     model_quality_check |-> "ModelQualityCheckStep",
     model_bias_check |-> "ModelBiasCheckStep",
     model_explainability_check |-> "ModelExplainabilityCheckStep",
     evaluation |-> "EvaluateHMDAModel",
     condition |-> "CheckF1HMDAEvaluation",
     registration |-> "RegisterHMDAModel"]

\* C3: for every combination of arguments the returned pipeline holds exactly
\* one step for each of the twelve stages and nothing else, and no two steps
\* (top-level or nested in the condition) have the same name.
C3_OneStepPerStage ==
    bpc = "returned" =>
        LET flat == Flatten(pipeline.steps) IN
        /\ \A stage \in DOMAIN StageStep :
              Cardinality({i \in DOMAIN flat : flat[i].name = StageStep[stage]}) = 1
        /\ \A i \in DOMAIN flat : \E stage \in DOMAIN StageStep : flat[i].name = StageStep[stage]
        /\ \A i, j \in DOMAIN flat : flat[i].name = flat[j].name => i = j

C3_Witness ==
    /\ bpc = "returned"
    /\ args.role # None /\ args.default_bucket # None
    /\ args.pipeline_name = "CheckF1HMDAEvaluation"
    /\ args.base_job_prefix = "PreprocessHMDAData"
    /\ Len(Flatten(pipeline.steps)) = Len(pipeline.steps) + 1

\* C4: every pipeline parameter a step of the returned pipeline reads is the
\* name of a parameter object in the pipeline's parameter list.
C4_ParametersDeclared ==
    bpc = "returned" =>
        LET flat == Flatten(pipeline.steps) IN
        \A i \in DOMAIN flat : flat[i].params \subseteq DeclaredParameters(pipeline.parameters)

C4_Witness ==
    /\ bpc = "returned"
    /\ LET flat == Flatten(pipeline.steps) IN
       /\ \E i \in DOMAIN flat : "ModelApprovalStatus" \in flat[i].params
       /\ \E i \in DOMAIN flat : "SkipModelExplainabilityCheck" \in flat[i].params
       /\ \E i \in DOMAIN flat : "InputDataUrl" \in flat[i].params
       /\ \E i \in DOMAIN flat : "DataQualitySuppliedStatistics" \in flat[i].params

\* C10: every element of the returned pipeline's parameter list is a
\* parameter object (named, typed string, integer or boolean, with a default),
\* and every step get_pipeline builds is in the step list or nested in the
\* condition step of the list.
C10_ParametersAndStepsCollected ==
    bpc = "returned" =>
        /\ \A i \in DOMAIN pipeline.parameters :
              /\ pipeline.parameters[i].kind \in ParameterKinds
              /\ pipeline.parameters[i].name # ""
        /\ BuiltSteps(role) \subseteq Range(Flatten(pipeline.steps))

(***************************************************************************)
(* One execution of the pipeline get_pipeline returns with its default     *)
(* arguments.  The service runs the graph the step list declares: a step   *)
(* starts once every step it depends on (explicit depends_on, or the       *)
(* producer of a reference it consumes) has succeeded; a step nested in a  *)
(* branch of the condition starts only after the condition chose that      *)
(* branch; a failed step fails the execution and stops the running steps.  *)
(***************************************************************************)
F1Values == {49, 50, 51}
ReportPaths ==
    {"classification_metrics.weighted_f1.value", "classification_metrics.accuracy.value"}
\* the contents evaluation.json can have (values in hundredths)
Reports == [ReportPaths -> F1Values]

StepNames == {s.name : s \in Range(Flatten(pipeline.steps))}
StepNamed(n) == CHOOSE s \in Range(Flatten(pipeline.steps)) : s.name = n

\* the condition steps in whose if (else) branch step n is nested
IfParents(n) ==
    {c.name : c \in {s \in Range(pipeline.steps) : \E i \in DOMAIN s.if_steps : s.if_steps[i].name = n}}
ElseParents(n) ==
    {c.name : c \in {s \in Range(pipeline.steps) : \E i \in DOMAIN s.else_steps : s.else_steps[i].name = n}}

\* the steps step n waits for
Deps(n) ==
    StepNamed(n).depends_on \cup {ref.step : ref \in StepNamed(n).refs}
        \cup IfParents(n) \cup ElseParents(n)

\* the value a condition's left operand resolves to
Resolve(operand) == report[operand.json_path]

ConditionHolds(c) ==
    IF c.op = "GreaterThanOrEqualTo" THEN Resolve(c.left) >= c.right
    ELSE Resolve(c.left) > c.right

StartStep(n) ==
    /\ execStatus = "Executing"
    /\ status[n] = "Pending"
    /\ \A d \in Deps(n) : status[d] = "Succeeded"
    /\ IfParents(n) # {} => outcome = "True"
    /\ ElseParents(n) # {} => outcome = "False"
    /\ status' = [status EXCEPT ![n] = "Executing"]
    /\ UNCHANGED <<report, outcome, execStatus>>
    /\ UNCHANGED <<buildVars, paramVars, tagVars, xformVars, concVars>>

\* the step's job ends well; the evaluation step leaves its report, the
\* condition step its outcome
SucceedStep(n) ==
    /\ execStatus = "Executing"
    /\ status[n] = "Executing"
    /\ status' = [status EXCEPT ![n] = "Succeeded"]
    /\ IF n = cond_lte.left.step_name
          THEN report' \in Reports
          ELSE UNCHANGED report
    /\ IF StepNamed(n).type = "ConditionStep"
          THEN outcome' = IF ConditionHolds(cond_lte) THEN "True" ELSE "False"
          ELSE UNCHANGED outcome
    /\ UNCHANGED execStatus
    /\ UNCHANGED <<buildVars, paramVars, tagVars, xformVars, concVars>>

\* the step's job ends badly: the execution fails, steps still running are stopped
FailStep(n) ==
    /\ execStatus = "Executing"
    /\ status[n] = "Executing"
    /\ StepNamed(n).type # "ConditionStep"
    /\ status' = [m \in DOMAIN status |->
                    IF m = n THEN "Failed"
                    ELSE IF status[m] = "Executing" THEN "Stopped" ELSE status[m]]
    /\ execStatus' = "Failed"
    /\ UNCHANGED <<report, outcome>>
    /\ UNCHANGED <<buildVars, paramVars, tagVars, xformVars, concVars>>

\* nothing runs and nothing can start: the execution ends well
FinishExecution ==
    /\ execStatus = "Executing"
    /\ \A n \in StepNames :
          /\ status[n] # "Executing"
          /\ status[n] = "Pending" =>
                \/ IfParents(n) # {} /\ outcome = "False"
                \/ ElseParents(n) # {} /\ outcome = "True"
    /\ execStatus' = "Succeeded"
    /\ UNCHANGED <<status, report, outcome>>
    /\ UNCHANGED <<buildVars, paramVars, tagVars, xformVars, concVars>>

InitExec ==
    /\ IdleBuild
    /\ status = [n \in StepNames |-> "Pending"]
    /\ report = <<>>
    /\ outcome = None
    /\ execStatus = "Executing"
    /\ IdleParams /\ IdleTags /\ IdleXform /\ IdleConc

NextExec ==
    \/ \E n \in StepNames : StartStep(n)
    \/ \E n \in StepNames : SucceedStep(n)
    \/ \E n \in StepNames : FailStep(n)
    \/ FinishExecution

SpecExec == InitExec /\ [][NextExec]_vars

(***************************************************************************)
(* Claims about the execution.                                             *)
(***************************************************************************)
Started(n) == status[n] # "Pending"

\* C1: the condition step compares classification_metrics.weighted_f1.value
\* of the evaluation report with 0.5 (50 hundredths) using >=; the
\* registration step runs only if that field is >= 0.5, it has run in every
\* execution that ended well with the field >= 0.5, and when the field is
\* below 0.5 no step runs in its place: only the steps of the step list ran.
C1_RegistrationIffF1AtLeastHalf ==
    LET weighted_f1 == report["classification_metrics.weighted_f1.value"] IN
    /\ Started("CheckF1HMDAEvaluation") => status["EvaluateHMDAModel"] = "Succeeded"
    /\ outcome # None => (outcome = "True" <=> weighted_f1 >= 50)
    /\ Started("RegisterHMDAModel") =>
          /\ status["CheckF1HMDAEvaluation"] = "Succeeded"
          /\ weighted_f1 >= 50
    /\ execStatus = "Succeeded" =>
          /\ status["RegisterHMDAModel"] = "Succeeded" <=> weighted_f1 >= 50
          /\ weighted_f1 < 50 =>
                {n \in StepNames : Started(n)} = {pipeline.steps[i].name : i \in DOMAIN pipeline.steps}

C1_Witness ==
    /\ execStatus = "Succeeded"
    /\ report["classification_metrics.weighted_f1.value"] = 50
    /\ report["classification_metrics.accuracy.value"] = 49
    /\ status["RegisterHMDAModel"] = "Succeeded"

\* C7: the model search does not start before both data checks have
\* succeeded, by its explicit depends_on and not by a reference: it consumes
\* no output of either check step.
C7_AutoMLAfterDataChecks ==
    /\ Started("AutoMLStep") =>
          /\ status["DataQualityCheckStep"] = "Succeeded"
          /\ status["DataBiasCheckStep"] = "Succeeded"
    /\ {"DataQualityCheckStep", "DataBiasCheckStep"} \subseteq StepNamed("AutoMLStep").depends_on
    /\ \A ref \in StepNamed("AutoMLStep").refs :
          ref.step \notin {"DataQualityCheckStep", "DataBiasCheckStep"}

C7_Witness ==
    /\ status["AutoMLStep"] = "Executing"
    /\ status["DataQualityCheckStep"] = "Succeeded"
    /\ status["DataBiasCheckStep"] = "Succeeded"

\* the steps reachable from the steps of S along at most k dependency edges
RECURSIVE Upstream(_, _)
Upstream(S, k) ==
    LET T == S \cup UNION {Deps(m) : m \in S} IN
    IF k = 0 \/ T = S THEN S ELSE Upstream(T, k - 1)

\* C8: the dependencies (depends_on and references) name steps of the
\* pipeline and form an acyclic graph; a step has started only if every step
\* it depends on has succeeded; and steps with no dependency path between
\* them can start in either order: while one of the two data checks (or of
\* transform, model-bias check, model-explainability check) runs or has ended
\* well, the others that are still pending can start.
C8_DagOrder ==
    /\ \A n \in StepNames :
          /\ Deps(n) \subseteq StepNames
          /\ n \notin Upstream(Deps(n), Cardinality(StepNames))
    /\ \A n \in StepNames : Started(n) => \A d \in Deps(n) : status[d] = "Succeeded"
    /\ \A G \in {{"DataQualityCheckStep", "DataBiasCheckStep"},
                 {"HMDATransform", "ModelBiasCheckStep", "ModelExplainabilityCheckStep"}} :
          \A n, m \in G :
             (/\ n # m /\ execStatus = "Executing"
              /\ status[n] \in {"Executing", "Succeeded"} /\ status[m] = "Pending")
                => ENABLED StartStep(m)

\* the evaluation (tenth of the list) has ended before the model-quality
\* check (seventh) started, and the model-bias check runs while the
\* model-explainability check has not started
C8_Witness ==
    /\ status["EvaluateHMDAModel"] = "Succeeded"
    /\ status["ModelQualityCheckStep"] = "Pending"
    /\ status["ModelBiasCheckStep"] = "Executing"
    /\ status["ModelExplainabilityCheckStep"] = "Pending"

(***************************************************************************)
(* Submission of an execution: every parameter object of the pipeline      *)
(* starts at its default value and can be overridden by name.              *)
(***************************************************************************)
MaxOverrides == 3

\* the parameter object of the pipeline's parameter list with the given name
ParameterNamed(name) ==
    CHOOSE q \in Range(pipeline.parameters) : q.kind \in ParameterKinds /\ q.name = name

\* values a parameter of each class can be given
ValuesOf(kind) ==
    IF kind = "ParameterBoolean" THEN {"True", "False"}
    ELSE IF kind = "ParameterInteger" THEN {"1", "2"}
    ELSE {"", "s3://my-bucket/supplied.json"}

DefaultValues ==
    [name \in DeclaredParameters(pipeline.parameters) |-> ParameterNamed(name).default_value]

OverrideParameter(name, v) ==
    /\ nOverrides < MaxOverrides
    /\ name \in DOMAIN values
    /\ v \in ValuesOf(ParameterNamed(name).kind)
    /\ values' = [values EXCEPT ![name] = v]
    /\ nOverrides' = nOverrides + 1
    /\ UNCHANGED <<buildVars, execVars, tagVars, xformVars, concVars>>

InitParams ==
    /\ IdleBuild
    /\ values = DefaultValues
    /\ nOverrides = 0
    /\ IdleExec /\ IdleTags /\ IdleXform /\ IdleConc

NextParams ==
    \E name \in DeclaredParameters(pipeline.parameters) :
        \E v \in {"True", "False", "1", "2", "", "s3://my-bucket/supplied.json"} :
            OverrideParameter(name, v)

SpecParams == InitParams /\ [][NextParams]_vars

CheckSteps ==
    {s \in Range(Flatten(pipeline.steps)) : s.type \in {"QualityCheckStep", "ClarifyCheckStep"}}

\* what a step's parameters resolve to in this submission
ResolvedConfig(s) == [q \in s.params |-> values[q]]

\* C5: each of the five check steps reads its skip flag and its
\* register-baseline flag from two parameters that no other check step reads,
\* and a submission that overrides the skip or register-baseline parameter of
\* one check step leaves what the four other check steps resolve to unchanged.
C5_CheckFlagsIndependent ==
    /\ [](/\ Cardinality(CheckSteps) = 5
          /\ \A c \in CheckSteps :
                /\ c.skip_check # c.register_new_baseline
                /\ {c.skip_check, c.register_new_baseline} \subseteq c.params
                /\ {c.skip_check, c.register_new_baseline} \subseteq DOMAIN values
                /\ ParameterNamed(c.skip_check).kind = "ParameterBoolean"
                /\ ParameterNamed(c.register_new_baseline).kind = "ParameterBoolean"
                /\ \A d \in CheckSteps \ {c} :
                      {c.skip_check, c.register_new_baseline} \cap d.params = {})
    /\ [][\A c \in CheckSteps :
            (\E q \in {c.skip_check, c.register_new_baseline} : values'[q] # values[q])
                => \A d \in CheckSteps \ {c} : ResolvedConfig(d)' = ResolvedConfig(d)]_vars

C5_Witness ==
    /\ values["SkipDataBiasCheck"] = "True"
    /\ values["RegisterNewModelQualityBaseline"] = "True"
    /\ values["SkipDataQualityCheck"] = "False"
    /\ values["SkipModelQualityCheck"] = "False"
    /\ nOverrides = 2

(***************************************************************************)
(* get_pipeline_custom_tags (lines 154-166).  new_tags is the list the     *)
(* caller passed, changed in place; project_tags holds the tags of the     *)
(* response still to be appended; error names the call that raised.        *)
(***************************************************************************)
MaxTags == 2
MaxProjectTags == 2

Tags == {"team=credit", "sagemaker:project-name=hmda"}
ProjectNames == {None, "hmda"}

\* the sequences over S of length at most n
SeqsUpTo(S, n) == UNION {[1..k -> S] : k \in 0..n}

\* line 156: get_sagemaker_client returns a client or raises
TagsCreateClient ==
    /\ tpc = "start"
    /\ \/ tpc' = "client" /\ UNCHANGED error
       \/ tpc' = "except" /\ error' = "get_sagemaker_client"
    /\ UNCHANGED <<supplied, project_name, new_tags, project_tags, returned>>
    /\ UNCHANGED <<buildVars, execVars, paramVars, xformVars, concVars>>

\* lines 157-158: describe_project and response["ProjectArn"]; a missing
\* project name is refused by the client, and the call or the lookup can raise
TagsDescribeProject ==
    /\ tpc = "client"
    /\ \/ /\ project_name # None
          /\ tpc' = "described" /\ UNCHANGED error
       \/ tpc' = "except" /\ error' = "describe_project"
    /\ UNCHANGED <<supplied, project_name, new_tags, project_tags, returned>>
    /\ UNCHANGED <<buildVars, execVars, paramVars, xformVars, concVars>>

\* lines 159-161: list_tags and response["Tags"], either of which can raise
TagsListTags ==
    /\ tpc = "described"
    /\ \/ /\ project_tags' \in SeqsUpTo(Tags, MaxProjectTags)
          /\ tpc' = "loop" /\ UNCHANGED error
       \/ tpc' = "except" /\ error' = "list_tags" /\ UNCHANGED project_tags
    /\ UNCHANGED <<supplied, project_name, new_tags, returned>>
    /\ UNCHANGED <<buildVars, execVars, paramVars, xformVars, concVars>>

\* lines 162-163: one turn of the loop, or its end
TagsAppend ==
    /\ tpc = "loop"
    /\ IF project_tags # <<>>
          THEN /\ new_tags' = Append(new_tags, Head(project_tags))
               /\ project_tags' = Tail(project_tags)
               /\ UNCHANGED tpc
          ELSE /\ tpc' = "return"
               /\ UNCHANGED <<new_tags, project_tags>>
    /\ UNCHANGED <<supplied, project_name, returned, error>>
    /\ UNCHANGED <<buildVars, execVars, paramVars, xformVars, concVars>>

\* mutant: the handler prints and raises again
TagsExcept_reraise ==
    /\ tpc = "except"
    /\ tpc' = "propagated"
    /\ UNCHANGED <<supplied, project_name, new_tags, project_tags, returned, error>>
    /\ UNCHANGED <<buildVars, execVars, paramVars, xformVars, concVars>>

\* lines 164-165: the handler prints the exception and falls through
TagsExcept ==
    /\ tpc = "except"
    /\ tpc' = "return"
    /\ UNCHANGED <<supplied, project_name, new_tags, project_tags, returned, error>>
    /\ UNCHANGED <<buildVars, execVars, paramVars, xformVars, concVars>>

\* line 166
TagsReturn ==
    /\ tpc = "return"
    /\ returned' = new_tags
    /\ tpc' = "returned"
    /\ UNCHANGED <<supplied, project_name, new_tags, project_tags, error>>
    /\ UNCHANGED <<buildVars, execVars, paramVars, xformVars, concVars>>

InitTags ==
    /\ IdleBuild /\ IdleExec /\ IdleParams /\ IdleXform /\ IdleConc
    /\ tpc = "start"
    /\ supplied \in SeqsUpTo(Tags, MaxTags)
    /\ project_name \in ProjectNames
    /\ new_tags = supplied
    /\ project_tags = <<>>
    /\ returned = None
    /\ error = None

NextTags ==
    \/ TagsCreateClient \/ TagsDescribeProject \/ TagsListTags
    \/ TagsAppend \/ TagsExcept \/ TagsReturn

SpecTags == InitTags /\ [][NextTags]_vars

\* C6: get_pipeline_custom_tags never lets an exception out; when creating
\* the client, describe_project or list_tags (or reading their responses)
\* fails, which always happens when the project name is None, it returns the
\* list it was given holding exactly the supplied tags.
C6_TagLookupFailureSwallowed ==
    /\ tpc # "propagated"
    /\ (tpc = "returned" /\ error # None) => returned = supplied
    /\ (tpc = "returned" /\ project_name = None) => error # None
    /\ tpc = "except" => new_tags = supplied

C6_Witness ==
    /\ tpc = "returned"
    /\ error = "list_tags"
    /\ Len(supplied) = MaxTags
    /\ returned = supplied

(***************************************************************************)
(* The batch-transform job of step HMDATransform (lines 482-511).  rows is *)
(* the test output, one record (a sequence of columns) per line; sent are  *)
(* the records given to the model, preds the predictions it returned and   *)
(* lines the records written to the output.                                *)
(***************************************************************************)
MaxRows == 2
MaxCols == 3

Cells == {"0", "1"}
\* the model answers with one column, the predicted label
Predictions == {"0", "1"}

\* records of two to MaxCols columns
Records == UNION {[1..k -> Cells] : k \in 2..MaxCols}

\* input_filter="$[1:]": the columns from index 1 on
InputFilter(record) == SubSeq(record, 2, Len(record))

\* join_source="Input": the input record followed by the prediction
JoinSource(record, prediction) == record \o <<prediction>>

\* mutant: output_filter="$[1,-1]"
OutputFilter_second_and_last(joined) == <<joined[2], joined[Len(joined)]>>

\* output_filter="$[0,-1]": the column at index 0 and the last column
OutputFilter(joined) == <<joined[1], joined[Len(joined)]>>

\* split_type="Line": the next line of the input is filtered, sent to the
\* model, joined with its prediction, filtered and written as one line
TransformRecord ==
    /\ xpc = "transform"
    /\ Len(lines) < Len(rows)
    /\ LET record == rows[Len(lines) + 1] IN
       \E prediction \in Predictions :
          /\ sent' = Append(sent, InputFilter(record))
          /\ preds' = Append(preds, prediction)
          /\ lines' = Append(lines, OutputFilter(JoinSource(record, prediction)))
    /\ UNCHANGED <<xpc, rows>>
    /\ UNCHANGED <<buildVars, execVars, paramVars, tagVars, concVars>>

\* assemble_with="Line": the output is complete once every line is written
TransformDone ==
    /\ xpc = "transform"
    /\ Len(lines) = Len(rows)
    /\ xpc' = "done"
    /\ UNCHANGED <<rows, sent, preds, lines>>
    /\ UNCHANGED <<buildVars, execVars, paramVars, tagVars, concVars>>

InitXform ==
    /\ IdleBuild /\ IdleExec /\ IdleParams /\ IdleTags /\ IdleConc
    /\ xpc = "transform"
    /\ rows \in SeqsUpTo(Records, MaxRows)
    /\ sent = <<>> /\ preds = <<>> /\ lines = <<>>

NextXform == TransformRecord \/ TransformDone

SpecXform == InitXform /\ [][NextXform]_vars

RegisterStep ==
    CHOOSE s \in Range(Flatten(pipeline.steps)) : s.name = StageStep.registration

CalculatedBaselines == {"CalculatedBaselineStatistics", "CalculatedBaselineConstraints"}
DriftCheckBaselines ==
    {"BaselineUsedForDriftCheckStatistics", "BaselineUsedForDriftCheckConstraints"}

\* the steps the fields of a bundle refer to
Producers(bundle) ==
    {bundle[f].step : f \in {g \in DOMAIN bundle : bundle[g].cls = "MetricsSource"}}

\* every field of the model-metrics bundle is a calculated baseline of an
\* earlier step, every field of the drift-check bundle a baseline used for
\* drift check or an analysis-config file
BundleFieldsWellKinded ==
    /\ \A f \in DOMAIN RegisterStep.model_metrics :
          LET src == RegisterStep.model_metrics[f] IN
          /\ src.cls = "MetricsSource"
          /\ src.output \in CalculatedBaselines
          /\ \E s \in Range(pipeline.steps) : s.name = src.step /\ src.output \in s.outputs
    /\ \A f \in DOMAIN RegisterStep.drift_check_baselines :
          LET src == RegisterStep.drift_check_baselines[f] IN
          \/ src.cls = "FileSource" /\ src.step = None
          \/ /\ src.cls = "MetricsSource"
             /\ src.output \in DriftCheckBaselines
             /\ \E s \in Range(pipeline.steps) : s.name = src.step /\ src.output \in s.outputs

\* C11 as stated: the bundles' fields are calculated baselines and drift-check
\* baselines (or analysis-config files), each of one producing step, and they
\* are collected from the data-quality, data-bias, model-quality, model-bias,
\* model-explainability and evaluation steps.
C11_BundlesFromChecksAndEvaluation ==
    bpc = "returned" =>
        /\ BundleFieldsWellKinded
        /\ Producers(RegisterStep.model_metrics) \cup Producers(RegisterStep.drift_check_baselines)
              = {StageStep.data_quality_check, StageStep.data_bias_check,
                 StageStep.model_quality_check, StageStep.model_bias_check,
                 StageStep.model_explainability_check, StageStep.evaluation}

\* C11 amended: the bundles' fields are calculated baselines and drift-check
\* baselines (or analysis-config files), each of one producing step, and each
\* bundle is collected from the five check steps; no field refers to the
\* evaluation step.
C11_BundlesFromCheckSteps ==
    bpc = "returned" =>
        /\ BundleFieldsWellKinded
        /\ Producers(RegisterStep.model_metrics) = {s.name : s \in CheckSteps}
        /\ Producers(RegisterStep.drift_check_baselines) = {s.name : s \in CheckSteps}
        /\ Cardinality(CheckSteps) = 5
        /\ BundleRefs(RegisterStep.model_metrics) \cup BundleRefs(RegisterStep.drift_check_baselines)
              \subseteq RegisterStep.refs

C11_Witness ==
    /\ bpc = "returned"
    /\ RegisterStep.model_metrics.explainability.step = "ModelExplainabilityCheckStep"
    /\ RegisterStep.drift_check_baselines.bias_config_file.cls = "FileSource"
    /\ RegisterStep.drift_check_baselines.model_statistics.output = "BaselineUsedForDriftCheckStatistics"

(***************************************************************************)
(* Role and bucket of the returned pipeline.                               *)
(***************************************************************************)
\* the role and the bucket the arguments stand for
WantedRole == IF args.role = None THEN ExecutionRole ELSE args.role
WantedBucket ==
    IF args.default_bucket = None THEN PlatformBucket(args.region) ELSE args.default_bucket

\* the S3 locations a step is configured with
StepLocations(s) ==
    (IF "s3_output" \in DOMAIN s THEN {s.s3_output} ELSE {})
        \cup (IF "s3_analysis_config" \in DOMAIN s THEN {s.s3_analysis_config} ELSE {})

\* C12: the role is resolved from the environment only when the role argument
\* is missing, and otherwise the supplied role is the role of every step that
\* takes one; the bucket of every location a step is configured with, and of
\* the pipeline's session, is the one the session resolved (the supplied
\* bucket, or the platform default); when the resolution of the bucket or of
\* the role fails nothing further is done and no pipeline object is returned.
C12_RoleAndBucketResolution ==
    /\ bpc \in {"role", "returned"} => role = WantedRole
    /\ bpc \in {"session", "role", "returned"} => default_bucket = WantedBucket
    /\ bpc = "returned" =>
          /\ \A s \in Range(Flatten(pipeline.steps)) :
                /\ s.role # NoRole => s.role = WantedRole
                /\ s.role = NoRole => s.type \in {"TransformStep", "ConditionStep"}
                /\ \A uri \in StepLocations(s) :
                      uri[1] = "s3:" /\ uri[2] = "" /\ uri[3] = WantedBucket
          /\ pipeline.sagemaker_session.default_bucket = WantedBucket
    /\ bpc = "raised" =>
          /\ pipeline = NoPipeline
          /\ ~ ENABLED NextBuild
          /\ default_bucket # None => args.role = None

C12_Witness ==
    /\ bpc = "returned"
    /\ args.role # None /\ args.default_bucket = None
    /\ \E s \in Range(Flatten(pipeline.steps)) :
          s.name = "HMDATransform" /\ s.s3_output[3] = PlatformBucket(args.region)
    /\ \E s \in Range(Flatten(pipeline.steps)) :
          s.name = "RegisterHMDAModel" /\ s.role = args.role

(***************************************************************************)
(* The transform output and its reading by the model-quality check.        *)
(***************************************************************************)
\* the label of a test row is its first column, the one input_filter drops
Label(record) == record[1]

\* C13 as stated: each line written by the transform step is the model's
\* prediction followed by the original label of the input row.
C13_PredictionThenLabel ==
    \A k \in DOMAIN lines : lines[k] = <<preds[k], Label(rows[k])>>

\* mutant: the attributes as the regression template has them
model_quality_check_config_template ==
    [baseline_dataset |-> Ref("HMDATransform", "TransformOutput"),
     problem_type |-> "BinaryClassification",
     inference_attribute |-> "_c0",
     ground_truth_attribute |-> "_c1"]

\* ModelQualityCheckConfig(...)
model_quality_check_config ==
    [baseline_dataset |-> Ref("HMDATransform", "TransformOutput"),
     problem_type |-> "BinaryClassification",
     inference_attribute |-> "_c1",
     ground_truth_attribute |-> "_c0"]

\* DatasetFormat.csv(header=False): the columns of a line are named _c0, _c1,
\* ... from the left
HeaderlessNames == ("_c0" :> 1) @@ ("_c1" :> 2) @@ ("_c2" :> 3)
Column(line, attribute) == line[HeaderlessNames[attribute]]

CheckStepNames == {s.name : s \in CheckSteps}

\* C15: the registration step does not start before the five check steps
\* have all succeeded, because the references of its two metrics bundles are
\* among the references it waits for; the condition step waits for the
\* evaluation step only, so its outcome can be true while a check is still
\* pending or running, and the registration step then cannot start until the
\* last check has succeeded.
C15_RegistrationWaitsForChecks ==
    /\ Cardinality(CheckStepNames) = 5
    /\ Started("RegisterHMDAModel") =>
          \A c \in CheckStepNames : status[c] = "Succeeded"
    /\ \A c \in CheckStepNames :
          \E ref \in BundleRefs(StepNamed("RegisterHMDAModel").model_metrics)
                        \cup BundleRefs(StepNamed("RegisterHMDAModel").drift_check_baselines) :
             ref.step = c /\ ref \in StepNamed("RegisterHMDAModel").refs
    /\ Deps("CheckF1HMDAEvaluation") = {"EvaluateHMDAModel"}
    /\ (/\ execStatus = "Executing" /\ outcome = "True"
        /\ status["RegisterHMDAModel"] = "Pending") =>
          (ENABLED StartStep("RegisterHMDAModel")
              <=> \A c \in CheckStepNames : status[c] = "Succeeded")

C15_Witness ==
    /\ execStatus = "Executing"
    /\ outcome = "True"
    /\ status["ModelBiasCheckStep"] = "Executing"
    /\ status["ModelExplainabilityCheckStep"] = "Pending"
    /\ status["RegisterHMDAModel"] = "Pending"

(***************************************************************************)
(* An execution all of whose jobs end well, scheduled fairly: a step that  *)
(* can start is started, a running job ends, and the execution is closed   *)
(* once nothing runs and nothing can start.                                *)
(***************************************************************************)
NextExecJobsSucceed ==
    \/ \E n \in StepNames : StartStep(n)
    \/ \E n \in StepNames : SucceedStep(n)
    \/ FinishExecution

SpecExecFair ==
    InitExec /\ [][NextExecJobsSucceed]_vars /\ WF_vars(NextExecJobsSucceed)

\* the execution has ended with each of the eleven steps of the step list
\* succeeded, and the registration step succeeded exactly when
\* weighted_f1 >= 0.5
ExecutionComplete ==
    /\ execStatus = "Succeeded"
    /\ Len(pipeline.steps) = 11
    /\ \A i \in DOMAIN pipeline.steps : status[pipeline.steps[i].name] = "Succeeded"
    /\ status["RegisterHMDAModel"] =
          IF report["classification_metrics.weighted_f1.value"] >= Threshold
             THEN "Succeeded" ELSE "Pending"

\* C16: under fair scheduling, when every job succeeds, the execution
\* eventually ends with each of the eleven steps of the step list completed
\* and the registration step completed as well when weighted_f1 >= 0.5; no
\* step waits forever on a dependency.
C16_ExecutionTerminates == <>ExecutionComplete

C16_Witness ==
    /\ ExecutionComplete
    /\ report["classification_metrics.weighted_f1.value"] = 51
    /\ report["classification_metrics.accuracy.value"] = 50
    /\ status["RegisterHMDAModel"] = "Succeeded"

(***************************************************************************)
(* The supplied-baseline parameters of the check steps.                    *)
(***************************************************************************)
\* the supplied-baseline parameters declared for each check step
SuppliedBaselines ==
    [DataQualityCheckStep |->
        {supplied_baseline_statistics_data_quality.name,
         supplied_baseline_constraints_data_quality.name},
     DataBiasCheckStep |-> {supplied_baseline_constraints_data_bias.name},
     ModelQualityCheckStep |->
        {supplied_baseline_statistics_model_quality.name,
         supplied_baseline_constraints_model_quality.name},
     ModelBiasCheckStep |-> {supplied_baseline_constraints_model_bias.name},
     ModelExplainabilityCheckStep |->
        {supplied_baseline_constraints_model_explainability.name}]

\* C17 as stated: every supplied-baseline parameter declared for a check step
\* is passed to that step, and the step resolves it to the value the
\* submission gives the parameter.
C17_SuppliedBaselinesPassed ==
    \A n \in DOMAIN SuppliedBaselines : \A q \in SuppliedBaselines[n] :
        /\ q \in DOMAIN values
        /\ q \in StepNamed(n).params
        /\ ResolvedConfig(StepNamed(n))[q] = values[q]

(***************************************************************************)
(* Two executions of the returned pipeline running side by side.  Each     *)
(* runs the steps of the step list in an order its dependencies allow; a   *)
(* step's job writes to the location the step is configured with and reads *)
(* the locations of the steps whose outputs it refers to.                  *)
(***************************************************************************)
ExecutionIds == {"e1", "e2"}

ListedStepNames == {pipeline.steps[i].name : i \in DOMAIN pipeline.steps}

\* ExecutionVariables.PIPELINE_EXECUTION_ID resolved for execution e
ResolveExecution(uri, e) ==
    [i \in DOMAIN uri |-> IF uri[i] = PIPELINE_EXECUTION_ID THEN e ELSE uri[i]]

\* where the job of step s writes in execution e: check and transform jobs
\* at their configured location, the AutoML job under its job name, which
\* is generated per execution
JobOutput(s, e) ==
    IF s.type = "AutoMLStep" THEN s.s3_output \o <<"automl-" \o e>>
    ELSE ResolveExecution(s.s3_output, e)

\* the locations the job of step s reads in execution e: those of the steps
\* whose outputs s refers to
JobInputs(s, e) ==
    {JobOutput(StepNamed(ref.step), e) :
        ref \in {x \in s.refs : "s3_output" \in DOMAIN StepNamed(x.step)}}

RunStep(e, n) ==
    /\ n \in ListedStepNames \ finished[e]
    /\ Deps(n) \subseteq finished[e]
    /\ finished' = [finished EXCEPT ![e] = @ \cup {n}]
    /\ consumed' = consumed \cup
          {[execution |-> e, step |-> n, location |-> l] : l \in JobInputs(StepNamed(n), e)}
    /\ written' = written \cup
          (IF "s3_output" \in DOMAIN StepNamed(n)
              THEN {[execution |-> e, step |-> n, location |-> JobOutput(StepNamed(n), e)]}
              ELSE {})
    /\ UNCHANGED <<buildVars, execVars, paramVars, tagVars, xformVars>>

InitConc ==
    /\ IdleBuild /\ IdleExec /\ IdleParams /\ IdleTags /\ IdleXform
    /\ finished = [e \in ExecutionIds |-> {}]
    /\ written = {} /\ consumed = {}

NextConc == \E e \in ExecutionIds : \E n \in ListedStepNames : RunStep(e, n)

SpecConc == InitConc /\ [][NextConc]_vars

\* C18 as stated: the locations written by the check steps and the transform
\* step of one execution are never written or read by the other execution.
C18_ExecutionsUseDisjointLocations ==
    \A w \in written :
        /\ \A v \in written : v.execution # w.execution => v.location # w.location
        /\ \A c \in consumed : c.execution # w.execution => c.location # w.location

====
